---- MODULE Spec2Model ----
(***************************************************************************)
(* Retrieval fusion, query expansion and the query cache of the PDF RAG    *)
(* system (advanced_retrieval.py, cache_manager.py) with the request       *)
(* pipelines that drive them (cli.py, streamlit_app/chat_interface.py).    *)
(*                                                                         *)
(* Text the code takes apart or glues together (str.split, str.strip,      *)
(* f-strings) is a sequence of one-character strings; text it only passes  *)
(* around is a TLA+ string.                                                *)
(***************************************************************************)
EXTENDS Integers, Sequences, FiniteSets, TLC

VARIABLES
    now,            \* time.time(), in seconds
    files,          \* the cache directory: file name -> content
    cache_index,    \* per process: self.cache_index of its QueryCache object
    pc,             \* per process: where it stands in the operation it runs
    question,       \* per process: the question of the request it runs
    cached,         \* per process: what get_from_cache returned to the request
    use_multi_query,\* per process: args.use_multi_query of the request
    retrieved_docs, \* per process: retrieved_docs of the request
    answer,         \* per process: answer of the request
    listing,        \* per process: the os.listdir names still to be visited
    stats,          \* per process: what get_cache_stats returned
    after_clear,    \* per process: the operation it runs follows a clear_cache on its cache
    answered,       \* questions whose answer some request has saved in the cache
    cleared,        \* clear_cache has been called
    ops,            \* operations started so far
    e_query,      \* QueryTransformer: the question handed to generate_multi_queries
    e_response,   \* QueryTransformer: what the multi-query chain returned
    e_out,        \* QueryTransformer: outcome of generate_multi_queries
    f_results,    \* fusion: per source (or per query) the documents it returns
    f_weights,    \* fusion: EnsembleRetriever.weights
    f_out,        \* fusion: outcome of the fusion that ran
    r_pc,         \* request: where the handler stands
    r_opts,       \* request: front end, use_multi_query and k of the request
    r_question,   \* request: the question
    r_cached,     \* request: what get_from_cache returned
    r_calls,      \* request: the queries the handler's retrieval sent to the base retriever
    r_docs,       \* request: retrieved_docs of the handler
    r_context,    \* request: the documents the answer chain put into the prompt
    r_answer,     \* request: answer of the handler
    i_pc,         \* interactive_mode: not started, at the prompt, or left
    i_use_cache,  \* interactive_mode: args.use_cache
    i_line,       \* interactive_mode: the line input() returned last
    i_did,        \* interactive_mode: what the loop body did with that line
    i_asked,      \* interactive_mode: the lines handed on as questions, in order
    c_pc,         \* chat: no session, between script runs, or inside the answering block
    c_messages,   \* chat: st.session_state.messages
    c_processing, \* chat: st.session_state.processing
    c_prompt,     \* chat: the prompt the running script run handles
    x_in_progress,  \* sidebar: st.session_state.indexing_in_progress
    x_index_status, \* sidebar: st.session_state.index_status
    x_thread      \* sidebar: per thread slot, where run_indexing_process stands

cacheVars == <<now, files, cache_index, pc, question, cached, use_multi_query,
               retrieved_docs, answer, listing, stats, after_clear, answered, cleared,
               ops>>
expandVars == <<e_query, e_response, e_out>>
fusionVars == <<f_results, f_weights, f_out>>
requestVars == <<r_pc, r_opts, r_question, r_cached, r_calls, r_docs, r_context, r_answer>>
interactiveVars == <<i_pc, i_use_cache, i_line, i_did, i_asked>>
chatVars == <<c_pc, c_messages, c_processing, c_prompt>>
indexingVars == <<x_in_progress, x_index_status, x_thread>>
webVars == <<chatVars, indexingVars>>
uiVars == <<interactiveVars, webVars>>
sessionVars == <<requestVars, uiVars>>
vars == <<cacheVars, expandVars, fusionVars, sessionVars>>

(***************************************************************************)
(* Bounds of the model.                                                    *)
(***************************************************************************)
MaxRespLen == 4   \* characters in a text-completion response
MaxSources == 2   \* retrievers of an ensemble / queries of a multi-query run
MaxDocs == 2      \* documents one retriever call returns
MaxThreads == 3   \* indexing threads one session may have started and not yet seen end
MaxOps == 2       \* operations the processes start in one run
Threads == 1..MaxThreads

(***************************************************************************)
(* Text helpers: Python's str.split("\n") and str.strip().                 *)
(***************************************************************************)
NL == "\n"
Whitespace == {" ", NL}

RECURSIVE SplitLines(_)
SplitLines(s) ==
    IF \A i \in 1..Len(s) : s[i] # NL
    THEN <<s>>
    ELSE LET k == CHOOSE i \in 1..Len(s) :
                      s[i] = NL /\ \A j \in 1..(i - 1) : s[j] # NL
         IN  <<SubSeq(s, 1, k - 1)>> \o SplitLines(SubSeq(s, k + 1, Len(s)))

RECURSIVE Strip(_)
Strip(s) ==
    IF s = <<>> THEN s
    ELSE IF s[1] \in Whitespace THEN Strip(Tail(s))
    ELSE IF s[Len(s)] \in Whitespace THEN Strip(SubSeq(s, 1, Len(s) - 1))
    ELSE s

NonEmptyText(s) == s # <<>>

(***************************************************************************)
(* QueryTransformer.generate_multi_queries, given the chain's response.    *)
(***************************************************************************)
\* an expansion that puts the original query after the generated ones
generate_multi_queries_last(query, result) ==
    LET lines   == SplitLines(result)
        queries == SelectSeq([i \in 1..Len(lines) |-> Strip(lines[i])], NonEmptyText)
    IN  queries \o <<query>>

generate_multi_queries(query, result) ==
    LET lines   == SplitLines(result)
        queries == SelectSeq([i \in 1..Len(lines) |-> Strip(lines[i])], NonEmptyText)
    IN  <<query>> \o queries

(***************************************************************************)
(* Documents.  metadata is a dict that may lack "source" or "page".        *)
(***************************************************************************)
Document(content, meta) == [page_content |-> content, metadata |-> meta]

Digits == <<"0", "1", "2", "3", "4", "5", "6", "7", "8", "9">>

\* str() of a small page number, as the f-string formats it
IntToStr(n) == <<Digits[n + 1]>>

\* f"{doc.metadata.get('source', '')}" and f"{doc.metadata.get('page', '')}"
FormatSource(doc) ==
    IF "source" \in DOMAIN doc.metadata THEN doc.metadata["source"] ELSE <<>>

FormatPage(doc) ==
    IF "page" \in DOMAIN doc.metadata THEN IntToStr(doc.metadata["page"]) ELSE <<>>

\* key = f"{doc.page_content}_{source}_{page}"
DocKey(doc) ==
    doc.page_content \o <<"_">> \o FormatSource(doc) \o <<"_">> \o FormatPage(doc)

\* The passage identity of the data model: (content, metadata.source, metadata.page)
CompositeKey(doc) ==
    <<doc.page_content,
      IF "source" \in DOMAIN doc.metadata THEN <<doc.metadata["source"]>> ELSE <<>>,
      IF "page" \in DOMAIN doc.metadata THEN <<doc.metadata["page"]>> ELSE <<>> >>

p1 == Document(<<"a">>, [source |-> <<"b", "_", "c">>])
p2 == Document(<<"a", "_", "b">>, [source |-> <<"c">>])
p3 == Document(<<"a">>, [source |-> <<"c">>, page |-> 1])
Pool == {p1, p2, p3}

SeqsUpTo(S, n) == UNION {[1..k -> S] : k \in 0..n}
DocLists == SeqsUpTo(Pool, MaxDocs)
Weights == {1, 2}

(***************************************************************************)
(* EnsembleRetriever._get_relevant_documents.  doc_dict is a Python dict:  *)
(* it keeps insertion order, so it is a sequence of entries with unique    *)
(* keys.                                                                   *)
(***************************************************************************)
HasKey(dict, key) == \E i \in 1..Len(dict) : dict[i].key = key

\* one pass of the inner loop body (lines 175-184)
EnsembleAdd(dict, doc, weight) ==
    LET key == DocKey(doc)
    IN  IF HasKey(dict, key)
        THEN [i \in 1..Len(dict) |->
                 IF dict[i].key = key
                 THEN [dict[i] EXCEPT !.score = @ + weight]
                 ELSE dict[i]]
        ELSE Append(dict, [key |-> key, doc |-> doc, score |-> weight])

RECURSIVE EnsembleDocs(_, _, _)
EnsembleDocs(dict, docs, weight) ==
    IF docs = <<>> THEN dict
    ELSE EnsembleDocs(EnsembleAdd(dict, Head(docs), weight), Tail(docs), weight)

RECURSIVE EnsembleLoop(_, _, _)
EnsembleLoop(dict, results, weights) ==
    IF results = <<>> THEN dict
    ELSE EnsembleLoop(EnsembleDocs(dict, Head(results), Head(weights)),
                      Tail(results), Tail(weights))

\* sorted(..., key=score, reverse=True): a stable sort, equal scores keep their order
InsertByScore(sorted, item) ==
    LET n == Cardinality({i \in 1..Len(sorted) : sorted[i].score >= item.score})
    IN  SubSeq(sorted, 1, n) \o <<item>> \o SubSeq(sorted, n + 1, Len(sorted))

RECURSIVE SortedByScore(_)
SortedByScore(items) ==
    IF items = <<>> THEN <<>>
    ELSE InsertByScore(SortedByScore(SubSeq(items, 1, Len(items) - 1)), items[Len(items)])

EnsembleScores(results, weights) == EnsembleLoop(<<>>, results, weights)

Ensemble_get_relevant_documents(results, weights) ==
    LET sorted_docs == SortedByScore(EnsembleScores(results, weights))
    IN  [i \in 1..Len(sorted_docs) |-> sorted_docs[i].doc]

(***************************************************************************)
(* MultiQueryRetriever.get_relevant_documents, given what the base         *)
(* retriever returns for each generated query.                             *)
(***************************************************************************)
UniqueAdd(dict, doc) ==
    IF HasKey(dict, DocKey(doc)) THEN dict
    ELSE Append(dict, [key |-> DocKey(doc), doc |-> doc])

RECURSIVE UniqueDocs(_, _)
UniqueDocs(dict, docs) ==
    IF docs = <<>> THEN dict ELSE UniqueDocs(UniqueAdd(dict, Head(docs)), Tail(docs))

RECURSIVE UniqueLoop(_, _)
UniqueLoop(dict, results) ==
    IF results = <<>> THEN dict
    ELSE UniqueLoop(UniqueDocs(dict, Head(results)), Tail(results))

MultiQuery_get_relevant_documents(results) ==
    LET unique_docs == UniqueLoop(<<>>, results)
    IN  [i \in 1..Len(unique_docs) |-> unique_docs[i].doc]

(***************************************************************************)
(* The query cache (cache_manager.py).  Every process (a CLI run, an       *)
(* interactive session, a Streamlit script run) holds its own QueryCache   *)
(* object over the one cache directory "./cache".                          *)
(***************************************************************************)
Procs == {"A", "B"}
q1 == <<"q", "1">>
q2 == <<"q", "2">>
Questions == {q1, q2}
Answers == {"", "a1"}              \* what the answer chain may return; "" is a response too
ExpanderResponses == {<<>>, <<"a">>}       \* what the multi-query chain may return

\* base_retriever.get_relevant_documents: the vector index does not change during
\* a run, so the same query gets the same documents
BaseRetriever(query) ==
    IF query = q1 THEN <<p1>> ELSE IF query = q2 THEN <<p3, p1>> ELSE <<p3>>
Frontends == {"query_system", "interactive_mode", "process_query"}

\* hashlib.md5(query).hexdigest(): deterministic, distinct on these questions
MD5 == [q \in Questions |-> IF q = q1 THEN "d1" ELSE "d2"]
_get_query_hash(query) == MD5[query]
Hashes == {_get_query_hash(q) : q \in Questions}

\* file names are <<stem, extension>>
IndexFile == <<"cache_index", "json">>
PayloadFile(query_hash) == <<query_hash, "json">>
FileNames == {IndexFile} \cup {PayloadFile(h) : h \in Hashes}

\* file contents: no such file, a file opened for writing whose JSON text is not
\* (yet) complete, or a file holding a complete JSON document
Missing == [st |-> "missing"]
Torn == [st |-> "torn"]
Written(data) == [st |-> "ok", data |-> data]

EmptyIndex == <<>>

RetentionWindow == 7 * 24 * 60 * 60

\* QueryCache._load_cache_index
_load_cache_index ==
    IF files[IndexFile] # Missing
    THEN IF files[IndexFile] = Torn THEN EmptyIndex ELSE files[IndexFile].data
    ELSE EmptyIndex

\* QueryCache._serialize_document / _deserialize_document
_serialize_document(doc) == [page_content |-> doc.page_content, metadata |-> doc.metadata]
_deserialize_document(data) == Document(data.page_content, data.metadata)

\* what get_from_cache returns: (None, None) or (docs, answer)
Absent == [found |-> FALSE]
Found(docs, ans) == [found |-> TRUE, docs |-> docs, answer |-> ans]

\* an age test that keeps an entry one second too long
Expired_late(entry, time) == time - entry.timestamp > RetentionWindow + 1

\* the age test of get_from_cache
Expired(entry, time) == time - entry.timestamp > RetentionWindow

\* get_from_cache raises: cache_entry["timestamp"] (line 119) stands outside the try
Raised == [found |-> FALSE, error |-> "KeyError"]

\* QueryCache.get_from_cache on the cache object whose index is `index`
get_from_cache(index, query) ==
    LET query_hash == _get_query_hash(query)
    IN  IF query_hash \in DOMAIN index
        THEN IF "timestamp" \notin DOMAIN index[query_hash]
             THEN Raised
             ELSE IF Expired(index[query_hash], now)
             THEN Absent
             ELSE LET file == files[PayloadFile(query_hash)]
                  IN  IF file.st = "ok" /\ {"documents", "answer"} \subseteq DOMAIN file.data
                      THEN Found([i \in 1..Len(file.data.documents) |->
                                     _deserialize_document(file.data.documents[i])],
                                 file.data.answer)
                      ELSE Absent
        ELSE Absent

\* `if cached_answer:` in the request handlers
Truthy(result) == result.found /\ result.answer # ""

\* self.cache_index[query_hash] = {...}
IndexPut(index, query_hash, entry) ==
    [h \in DOMAIN index \cup {query_hash} |-> IF h = query_hash THEN entry ELSE index[h]]

\* cache_data of save_to_cache
CacheData(query, documents, ans, time) ==
    [query |-> query,
     documents |-> [i \in 1..Len(documents) |-> _serialize_document(documents[i])],
     answer |-> ans,
     timestamp |-> time]

\* QueryCache.get_cache_stats over the names `names` that os.listdir returned
MinOf(S) == CHOOSE x \in S : \A y \in S : x <= y
MaxOf(S) == CHOOSE x \in S : \A y \in S : x >= y

FileSize(content) ==
    IF content.st = "torn" THEN 0
    ELSE IF content.data = EmptyIndex THEN 1
    ELSE 2

RECURSIVE SumSizes(_)
SumSizes(names) ==
    IF names = {} THEN 0
    ELSE LET f == CHOOSE n \in names : TRUE
         IN  FileSize(files[f]) + SumSizes(names \ {f})

get_cache_stats(index, names) ==
    LET total_entries == Cardinality(DOMAIN index)
        seen == {index[f[1]].timestamp :
                    f \in {n \in names : n # IndexFile /\ n[1] \in DOMAIN index}}
        oldest_timestamp == MinOf({now} \cup seen)
        newest_timestamp == MaxOf({0} \cup seen)
    IN  [total_entries |-> total_entries,
         total_size_bytes |-> SumSizes(names),
         oldest_entry |-> IF total_entries > 0 THEN <<oldest_timestamp>> ELSE <<>>,
         newest_entry |-> IF total_entries > 0 THEN <<newest_timestamp>> ELSE <<>>]

NoStats == [total_entries |-> -1]

(***************************************************************************)
(* Processes.  pc tells where a process stands: between operations (Idle;  *)
(* the value tells how the last operation ended) or inside one.            *)
(***************************************************************************)
Idle == {"idle",             \* a cache object was constructed
         "RequestDone",      \* a request returned its answer
         "RequestUnsaved",   \* a request returned its answer; save_to_cache printed an error
         "RequestFailed",    \* a request ended with an exception
         "ClearDone", "StatsDone",
         "StatsFailed"}      \* get_cache_stats raised
Pipeline == {"Retrieve", "Synthesize", "Generate", "CacheStore", "DumpPayload", "SaveIndex",
             "DumpIndex"}
Clearing == {"ClearRemove", "ClearSaveIndex", "ClearDumpIndex"}

\* The cache directory as earlier runs may have left it: empty, or holding the
\* entry of a request that answered q1 at time 0.
EarlierEntry == [query |-> q1, timestamp |-> 0]
EarlierIndex == [h \in {_get_query_hash(q1)} |-> EarlierEntry]
EarlierFiles ==
    [f \in FileNames |->
        IF f = IndexFile THEN Written(EarlierIndex)
        ELSE IF f = PayloadFile(_get_query_hash(q1))
             THEN Written(CacheData(q1, BaseRetriever(q1), "a1", 0))
             ELSE Missing]

\* no request has been handed to a front end
NoOptions == [frontend |-> "query_system", multi |-> FALSE, k |-> 1]
InitIdleRequest ==
    /\ r_pc = "idle"
    /\ r_opts = NoOptions
    /\ r_question = <<>>
    /\ r_cached = [found |-> FALSE]
    /\ r_calls = <<>>
    /\ r_docs = <<>>
    /\ r_context = <<>>
    /\ r_answer = ""

\* interactive_mode has not been started
InitIdleInteractive ==
    /\ i_pc = "off"
    /\ i_use_cache = FALSE
    /\ i_line = <<>>
    /\ i_did = "nothing"
    /\ i_asked = <<>>

\* no browser session is open: no chat history, no indexing thread
InitIdleWeb ==
    /\ c_pc = "off"
    /\ c_messages = <<>>
    /\ c_processing = FALSE
    /\ c_prompt = <<>>
    /\ x_in_progress = FALSE
    /\ x_index_status = FALSE
    /\ x_thread = [t \in Threads |-> "none"]

InitIdleSession == InitIdleRequest /\ InitIdleInteractive /\ InitIdleWeb

\* every process has constructed its cache object and runs nothing
InitProcs ==
    /\ InitIdleSession
    /\ now = 0
    /\ cache_index = [p \in Procs |-> _load_cache_index]
    /\ pc = [p \in Procs |-> "idle"]
    /\ question = [p \in Procs |-> q1]
    /\ cached = [p \in Procs |-> Absent]
    /\ use_multi_query = [p \in Procs |-> FALSE]
    /\ retrieved_docs = [p \in Procs |-> <<>>]
    /\ answer = [p \in Procs |-> ""]
    /\ listing = [p \in Procs |-> {}]
    /\ stats = [p \in Procs |-> NoStats]
    /\ after_clear = [p \in Procs |-> FALSE]
    /\ cleared = FALSE
    /\ ops = 0

InitCache ==
    /\ \/ files = [f \in FileNames |-> Missing] /\ answered = {}
       \/ files = EarlierFiles /\ answered = {q1}
    /\ InitProcs

\* an operation starts on a process that runs none; its locals are fresh
StartOp(p, op) ==
    /\ pc[p] \in Idle
    /\ ops < MaxOps
    /\ ops' = ops + 1
    /\ after_clear' = [after_clear EXCEPT ![p] = (pc[p] = "ClearDone" /\ op # "new")]
    /\ IF op = "request" THEN TRUE ELSE cached' = [cached EXCEPT ![p] = Absent]
    /\ use_multi_query' = [use_multi_query EXCEPT ![p] = FALSE]
    /\ retrieved_docs' = [retrieved_docs EXCEPT ![p] = <<>>]
    /\ answer' = [answer EXCEPT ![p] = ""]
    /\ stats' = [stats EXCEPT ![p] = NoStats]

\* QueryCache.__init__: a new cache object over the directory
NewCache(p) ==
    /\ StartOp(p, "new")
    /\ pc' = [pc EXCEPT ![p] = "idle"]
    /\ cache_index' = [cache_index EXCEPT ![p] = _load_cache_index]
    /\ UNCHANGED <<expandVars, fusionVars, sessionVars, now, files, question, listing, answered, cleared>>

\* a cache check whose lookup drops the index entry it finds expired
CacheCheck_evicts(p, q) ==
    /\ StartOp(p, "request")
    /\ question' = [question EXCEPT ![p] = q]
    /\ LET result == get_from_cache(cache_index[p], q)
           query_hash == _get_query_hash(q)
       IN  /\ pc' = [pc EXCEPT ![p] = IF result = Raised THEN "RequestFailed"
                                     ELSE IF Truthy(result) THEN "RequestDone"
                                     ELSE "Retrieve"]
           /\ cached' = [cached EXCEPT ![p] = result]
           /\ cache_index' = [cache_index EXCEPT ![p] =
                  IF query_hash \in DOMAIN @ /\ result = Absent
                     /\ "timestamp" \in DOMAIN @[query_hash]
                     /\ Expired(@[query_hash], now)
                  THEN [h \in DOMAIN @ \ {query_hash} |-> @[h]]
                  ELSE @]
    /\ UNCHANGED <<expandVars, fusionVars, sessionVars, now, files, listing, answered,
                   cleared>>

\* a request: the cache check of query_system / interactive_mode / process_query
CacheCheck(p, q) ==
    /\ StartOp(p, "request")
    /\ question' = [question EXCEPT ![p] = q]
    /\ LET result == get_from_cache(cache_index[p], q)
       IN  /\ pc' = [pc EXCEPT ![p] = IF result = Raised THEN "RequestFailed"
                                     ELSE IF Truthy(result) THEN "RequestDone"
                                     ELSE "Retrieve"]
           /\ cached' = [cached EXCEPT ![p] = result]
    /\ UNCHANGED <<expandVars, fusionVars, sessionVars, now, files, cache_index, listing,
                   answered,
                   cleared>>

\* the retrieval of a request: the base retriever alone, or MultiQueryRetriever
\* (the multi-query chain, then the base retriever once per generated query)
Retrieve(p) ==
    /\ pc[p] = "Retrieve"
    /\ \E multi \in BOOLEAN :
          /\ use_multi_query' = [use_multi_query EXCEPT ![p] = multi]
          /\ IF multi
             THEN \E response \in ExpanderResponses :
                     LET queries == generate_multi_queries(question[p], response)
                     IN  retrieved_docs' = [retrieved_docs EXCEPT ![p] =
                             MultiQuery_get_relevant_documents(
                                 [i \in 1..Len(queries) |-> BaseRetriever(queries[i])])]
             ELSE retrieved_docs' = [retrieved_docs EXCEPT ![p] =
                      BaseRetriever(question[p])]
    /\ pc' = [pc EXCEPT ![p] = "Synthesize"]
    /\ UNCHANGED <<expandVars, fusionVars, sessionVars, ops, now, files, cache_index,
                   question, cached,
                   answer, listing, stats, after_clear, answered, cleared>>

\* the multi-query chain or the retriever raises: the request ends with the error
RetrieveFails(p) ==
    /\ pc[p] = "Retrieve"
    /\ pc' = [pc EXCEPT ![p] = "RequestFailed"]
    /\ UNCHANGED <<expandVars, fusionVars, sessionVars, ops, now, files, cache_index,
                   question, cached,
                   use_multi_query, retrieved_docs, answer, listing, stats, after_clear,
                   answered, cleared>>

\* rag_generator.answer_question(retriever, question), first part: create_rag_chain
\* and the chain's own call of the retriever (`retriever | self._format_docs`,
\* rag_generator.py:121, run by rag_chain.invoke).  query_system and process_query
\* hand it the MultiQueryRetriever in multi-query mode, which create_rag_chain
\* cannot compose (TypeError); interactive_mode always hands it the base retriever.
\* The chain formats the documents the retriever returns to it; retrieved_docs of
\* the handler stays as it is.
ChainRetrieve(p) ==
    /\ pc[p] = "Synthesize"
    /\ \E frontend \in Frontends : ~(use_multi_query[p] /\ frontend # "interactive_mode")
    /\ pc' = [pc EXCEPT ![p] = "Generate"]
    /\ use_multi_query' = [use_multi_query EXCEPT ![p] = FALSE]
    /\ UNCHANGED <<expandVars, fusionVars, sessionVars, ops, now, files, cache_index,
                   question, cached,
                   retrieved_docs, answer, listing, stats, after_clear, answered, cleared>>

\* rag_generator.answer_question, second part: prompt | llm | StrOutputParser gives
\* the answer
Synthesize(p) ==
    /\ pc[p] = "Generate"
    /\ \E a \in Answers : answer' = [answer EXCEPT ![p] = a]
    /\ pc' = [pc EXCEPT ![p] = "CacheStore"]
    /\ UNCHANGED <<expandVars, fusionVars, sessionVars, ops, now, files, cache_index,
                   question, cached,
                   use_multi_query, retrieved_docs, listing, stats, after_clear, answered,
                   cleared>>

\* a failing synthesis in a request that has put its index entry before generating
SynthesizeFails_afterStore(p) ==
    /\ pc[p] \in {"Synthesize", "Generate"}
    /\ pc' = [pc EXCEPT ![p] = "RequestFailed"]
    /\ use_multi_query' = [use_multi_query EXCEPT ![p] = FALSE]
    /\ retrieved_docs' = [retrieved_docs EXCEPT ![p] = <<>>]
    /\ cache_index' = [cache_index EXCEPT ![p] =
           IndexPut(@, _get_query_hash(question[p]),
                    [query |-> question[p], timestamp |-> now])]
    /\ UNCHANGED <<expandVars, fusionVars, sessionVars, ops, now, files, question, cached,
                   answer, listing, stats, after_clear, answered, cleared>>

\* create_rag_chain or the answer chain raises: the request ends with the error
SynthesizeFails(p) ==
    /\ pc[p] \in {"Synthesize", "Generate"}
    /\ pc' = [pc EXCEPT ![p] = "RequestFailed"]
    /\ use_multi_query' = [use_multi_query EXCEPT ![p] = FALSE]
    /\ retrieved_docs' = [retrieved_docs EXCEPT ![p] = <<>>]
    /\ UNCHANGED <<expandVars, fusionVars, sessionVars, ops, now, files, cache_index,
                   question, cached,
                   answer, listing, stats, after_clear, answered, cleared>>

\* save_to_cache, lines 149-172: the index entry in memory, then open(payload, "w").
\* When open raises, the except clause prints and save_to_cache returns.
SaveToCache(p) ==
    /\ pc[p] = "CacheStore"
    /\ cache_index' = [cache_index EXCEPT ![p] =
           IndexPut(@, _get_query_hash(question[p]),
                    [query |-> question[p], timestamp |-> now])]
    /\ \/ /\ files' = [files EXCEPT ![PayloadFile(_get_query_hash(question[p]))] = Torn]
          /\ pc' = [pc EXCEPT ![p] = "DumpPayload"]
       \/ /\ pc' = [pc EXCEPT ![p] = "RequestUnsaved"]
          /\ UNCHANGED files
    /\ UNCHANGED <<expandVars, fusionVars, sessionVars, ops, now, question, cached,
                   use_multi_query,
                   retrieved_docs, answer, listing, stats, after_clear, answered, cleared>>

\* a json.dump whose failure leaves save_to_cache as an exception and ends the request
DumpPayload_raises(p) ==
    /\ pc[p] = "DumpPayload"
    /\ LET query_hash == _get_query_hash(question[p])
       IN  \/ /\ files' = [files EXCEPT ![PayloadFile(query_hash)] =
                     Written(CacheData(question[p], retrieved_docs[p], answer[p],
                                       cache_index[p][query_hash].timestamp))]
              /\ pc' = [pc EXCEPT ![p] = "SaveIndex"]
           \/ /\ pc' = [pc EXCEPT ![p] = "RequestFailed"]
              /\ UNCHANGED files
    /\ UNCHANGED <<expandVars, fusionVars, sessionVars, ops, now, cache_index, question,
                   cached,
                   use_multi_query, retrieved_docs, answer, listing, stats, after_clear,
                   answered, cleared>>

\* save_to_cache, line 173: json.dump(cache_data, f); a failed write leaves the
\* file incomplete
DumpPayload(p) ==
    /\ pc[p] = "DumpPayload"
    /\ LET query_hash == _get_query_hash(question[p])
       IN  \/ /\ files' = [files EXCEPT ![PayloadFile(query_hash)] =
                     Written(CacheData(question[p], retrieved_docs[p], answer[p],
                                       cache_index[p][query_hash].timestamp))]
              /\ pc' = [pc EXCEPT ![p] = "SaveIndex"]
           \/ /\ pc' = [pc EXCEPT ![p] = "RequestUnsaved"]
              /\ UNCHANGED files
    /\ UNCHANGED <<expandVars, fusionVars, sessionVars, ops, now, cache_index, question,
                   cached,
                   use_multi_query, retrieved_docs, answer, listing, stats, after_clear,
                   answered, cleared>>

\* _save_cache_index, line 56: open(self.cache_index_path, "w"); when it raises, the
\* except clause prints and _save_cache_index returns
OpenIndex(p, at, opened, failed) ==
    /\ pc[p] = at
    /\ \/ /\ files' = [files EXCEPT ![IndexFile] = Torn]
          /\ pc' = [pc EXCEPT ![p] = opened]
       \/ /\ pc' = [pc EXCEPT ![p] = failed]
          /\ UNCHANGED files

\* _save_cache_index, line 57: json.dump(self.cache_index, f); a failed write leaves
\* the file incomplete
DumpIndex(p, at, done, failed) ==
    /\ pc[p] = at
    /\ \/ /\ files' = [files EXCEPT ![IndexFile] = Written(cache_index[p])]
          /\ pc' = [pc EXCEPT ![p] = done]
       \/ /\ pc' = [pc EXCEPT ![p] = failed]
          /\ UNCHANGED files

\* save_to_cache, line 176: self._save_cache_index(), then the request returns
SaveIndex(p) ==
    /\ \/ OpenIndex(p, "SaveIndex", "DumpIndex", "RequestUnsaved")
       \/ DumpIndex(p, "DumpIndex", "RequestDone", "RequestUnsaved")
    /\ answered' = IF pc'[p] = "RequestDone" /\ answer[p] # ""
                   THEN answered \cup {question[p]}
                   ELSE answered
    /\ UNCHANGED <<expandVars, fusionVars, sessionVars, ops, now, cache_index, question,
                   cached,
                   use_multi_query, retrieved_docs, answer, listing, stats, after_clear,
                   cleared>>

\* what save_to_cache hands to its caller, by the way it ended: the except clauses of
\* save_to_cache (lines 177-178) and of _save_cache_index (lines 58-59) print the
\* error, and the method has no return statement
StoreOutcome(ending) ==
    IF ending \in {"RequestDone", "RequestUnsaved"} THEN "None" ELSE "running"

\* clear_cache, line 185: os.listdir(self.cache_dir); every name ends with ".json"
ClearCache(p) ==
    /\ StartOp(p, "clear")
    /\ listing' = [listing EXCEPT ![p] = {f \in FileNames : files[f] # Missing}]
    /\ pc' = [pc EXCEPT ![p] = "ClearRemove"]
    /\ cleared' = TRUE
    /\ UNCHANGED <<expandVars, fusionVars, sessionVars, now, files, cache_index, question, answered>>

\* clear_cache, lines 186-191: os.remove of one listed file; a failure is printed
ClearRemove(p) ==
    /\ pc[p] = "ClearRemove"
    /\ \E f \in listing[p] :
          /\ listing' = [listing EXCEPT ![p] = @ \ {f}]
          /\ \/ files' = [files EXCEPT ![f] = Missing]
             \/ UNCHANGED files
    /\ UNCHANGED <<expandVars, fusionVars, sessionVars, ops, now, cache_index, pc,
                   question, cached,
                   use_multi_query, retrieved_docs, answer, stats, after_clear, answered,
                   cleared>>

\* a clear_cache that removes the files and keeps the index in memory
ClearReset_keepIndex(p) ==
    /\ pc[p] = "ClearRemove"
    /\ listing[p] = {}
    /\ pc' = [pc EXCEPT ![p] = "ClearSaveIndex"]
    /\ UNCHANGED <<expandVars, fusionVars, sessionVars, ops, now, files, cache_index,
                   question, cached,
                   use_multi_query, retrieved_docs, answer, listing, stats, after_clear,
                   answered, cleared>>

\* clear_cache, line 194: self.cache_index = {}
ClearReset(p) ==
    /\ pc[p] = "ClearRemove"
    /\ listing[p] = {}
    /\ cache_index' = [cache_index EXCEPT ![p] = EmptyIndex]
    /\ pc' = [pc EXCEPT ![p] = "ClearSaveIndex"]
    /\ UNCHANGED <<expandVars, fusionVars, sessionVars, ops, now, files, question, cached,
                   use_multi_query, retrieved_docs, answer, listing, stats, after_clear,
                   answered, cleared>>

\* clear_cache, lines 195-197: self._save_cache_index(), then the success message
ClearSaveIndex(p) ==
    /\ \/ OpenIndex(p, "ClearSaveIndex", "ClearDumpIndex", "ClearDone")
       \/ DumpIndex(p, "ClearDumpIndex", "ClearDone", "ClearDone")
    /\ UNCHANGED <<expandVars, fusionVars, sessionVars, ops, now, cache_index, question,
                   cached,
                   use_multi_query, retrieved_docs, answer, listing, stats, after_clear,
                   answered, cleared>>

\* get_cache_stats, lines 206-212: os.listdir
CacheStats(p) ==
    /\ StartOp(p, "stats")
    /\ listing' = [listing EXCEPT ![p] = {f \in FileNames : files[f] # Missing}]
    /\ pc' = [pc EXCEPT ![p] = "StatsScan"]
    /\ UNCHANGED <<expandVars, fusionVars, sessionVars, now, files, cache_index,
                   question, answered,
                   cleared>>

\* get_cache_stats, lines 213-235: os.path.getsize of every listed file (it raises
\* when the file is gone), then the record
StatsScan(p) ==
    /\ pc[p] = "StatsScan"
    /\ IF \E f \in listing[p] : files[f] = Missing
       THEN /\ pc' = [pc EXCEPT ![p] = "StatsFailed"]
            /\ UNCHANGED stats
       ELSE /\ pc' = [pc EXCEPT ![p] = "StatsDone"]
            /\ stats' = [stats EXCEPT ![p] = get_cache_stats(cache_index[p], listing[p])]
    /\ listing' = [listing EXCEPT ![p] = {}]
    /\ UNCHANGED <<expandVars, fusionVars, sessionVars, ops, now, files, cache_index,
                   question, cached,
                   use_multi_query, retrieved_docs, answer, after_clear, answered, cleared>>

\* time passes.  The clock shows the three instants that matter to an entry stored
\* at 0: 0 itself, the last second of its retention window, and the second after
Tick ==
    /\ now <= RetentionWindow
    /\ now' = IF now < RetentionWindow THEN RetentionWindow ELSE RetentionWindow + 1
    /\ UNCHANGED <<expandVars, fusionVars, sessionVars, ops, files, cache_index, pc,
                   question, cached,
                   use_multi_query, retrieved_docs, answer, listing, stats, after_clear,
                   answered, cleared>>

\* nothing runs in the query transformer / in the fusion
NoInput == <<>>
NotRun == [st |-> "idle"]
InitIdleExpand == e_query = NoInput /\ e_response = NoInput /\ e_out = NotRun
InitIdleFusion == f_results = NoInput /\ f_weights = NoInput /\ f_out = NotRun

Init == InitCache /\ InitIdleExpand /\ InitIdleFusion

Next ==
    \/ \E p \in Procs : NewCache(p)
    \/ \E p \in Procs, q \in Questions : CacheCheck(p, q)
    \/ \E p \in Procs : Retrieve(p)
    \/ \E p \in Procs : RetrieveFails(p)
    \/ \E p \in Procs : ChainRetrieve(p)
    \/ \E p \in Procs : Synthesize(p)
    \/ \E p \in Procs : SynthesizeFails(p)
    \/ \E p \in Procs : SaveToCache(p)
    \/ \E p \in Procs : DumpPayload(p)
    \/ \E p \in Procs : SaveIndex(p)
    \/ \E p \in Procs : ClearCache(p)
    \/ \E p \in Procs : ClearRemove(p)
    \/ \E p \in Procs : ClearReset(p)
    \/ \E p \in Procs : ClearSaveIndex(p)
    \/ \E p \in Procs : CacheStats(p)
    \/ \E p \in Procs : StatsScan(p)
    \/ Tick

Spec == Init /\ [][Next]_vars

(***************************************************************************)
(* The query transformer on its own: generate_multi_queries applied to any *)
(* question and any response of the multi-query chain.                     *)
(***************************************************************************)
ExpandQuestions == {<<"a">>, <<" ", "a">>, <<"b", " ">>}
ResponseChars == {"a", " ", NL}

EmptyDirectory == [f \in FileNames |-> Missing]

InitExpand ==
    /\ e_query \in ExpandQuestions
    /\ e_response \in SeqsUpTo(ResponseChars, MaxRespLen)
    /\ e_out = NotRun

\* generate_multi_queries returns
GenerateMultiQueries ==
    /\ e_out = NotRun
    /\ e_out' = [st |-> "done", queries |-> generate_multi_queries(e_query, e_response)]
    /\ UNCHANGED <<cacheVars, sessionVars, fusionVars, e_query, e_response>>

\* multi_query_chain.invoke raises; generate_multi_queries lets the exception through
GenerateFails ==
    /\ e_out = NotRun
    /\ e_out' = [st |-> "failed"]
    /\ UNCHANGED <<cacheVars, sessionVars, fusionVars, e_query, e_response>>

NextExpand == GenerateMultiQueries \/ GenerateFails

ExpandInit == InitCache /\ files = EmptyDirectory /\ InitIdleFusion /\ InitExpand

SpecExpand == ExpandInit /\ [][NextExpand]_vars

(***************************************************************************)
(* The two fusions on their own, applied to any lists of documents the     *)
(* sources (EnsembleRetriever) or the queries (MultiQueryRetriever) return.*)
(***************************************************************************)
\* what a source call may do instead of returning documents: raise
SourceRaises == <<[error |-> "RetrievalFailure"]>>

HasFailure(results) == \E i \in 1..Len(results) : results[i] = SourceRaises

InitFusion ==
    /\ f_results \in SeqsUpTo(DocLists \cup {SourceRaises}, MaxSources)
    /\ f_weights \in [1..Len(f_results) -> Weights]
    /\ f_out = NotRun

\* EnsembleRetriever._get_relevant_documents returns
EnsembleRun ==
    /\ f_out = NotRun
    /\ ~HasFailure(f_results)
    /\ f_out' = [st |-> "done", policy |-> "ensemble",
                 docs |-> Ensemble_get_relevant_documents(f_results, f_weights)]
    /\ UNCHANGED <<cacheVars, sessionVars, expandVars, f_results, f_weights>>

\* MultiQueryRetriever.get_relevant_documents returns; f_results[i] is what the base
\* retriever returned for the i-th generated query
MultiQueryRun ==
    /\ f_out = NotRun
    /\ ~HasFailure(f_results)
    /\ f_out' = [st |-> "done", policy |-> "multi_query",
                 docs |-> MultiQuery_get_relevant_documents(f_results)]
    /\ UNCHANGED <<cacheVars, sessionVars, expandVars, f_results, f_weights>>

\* a fusion that returns what the sources before the failing one gave
FusionAborted_partial(results) ==
    LET failing == CHOOSE i \in 1..Len(results) :
                       results[i] = SourceRaises /\ \A j \in 1..(i - 1) : results[j] # SourceRaises
    IN  [st |-> "done", policy |-> "multi_query",
         docs |-> MultiQuery_get_relevant_documents(SubSeq(results, 1, failing - 1))]

\* the loops of the two fusions (lines 169-184, 230-239) when a source call raises:
\* there is no try around the call, the exception leaves the method at the first
\* failing source and doc_dict / unique_docs is dropped
FusionAborted(results) ==
    LET failing == CHOOSE i \in 1..Len(results) :
                       results[i] = SourceRaises /\ \A j \in 1..(i - 1) : results[j] # SourceRaises
    IN  [st |-> "failed", at |-> failing]

\* a retriever call raises; neither fusion catches it
FusionFails ==
    /\ f_out = NotRun
    /\ HasFailure(f_results)
    /\ f_out' = FusionAborted(f_results)
    /\ UNCHANGED <<cacheVars, sessionVars, expandVars, f_results, f_weights>>

NextFusion == EnsembleRun \/ MultiQueryRun \/ FusionFails

FusionInit == InitCache /\ files = EmptyDirectory /\ InitIdleExpand /\ InitFusion

SpecFusion == FusionInit /\ [][NextFusion]_vars

(***************************************************************************)
(* Construction of an EnsembleRetriever, then its use.  Before __init__    *)
(* f_weights holds the `weights` argument, after it self.weights.          *)
(***************************************************************************)
NoWeights == [given |-> FALSE]
GivenWeights(list) == [given |-> TRUE, list |-> list]
WeightArgs == {NoWeights} \cup {GivenWeights(w) : w \in SeqsUpTo(Weights, MaxSources + 1)}
SourceReturns == {<<>>, <<p1>>}
Unbuilt == [st |-> "unbuilt"]
ConfigError == [st |-> "config_error"]
FieldError == [st |-> "field_error"]

\* line 142 assigns self.retrievers on a BaseRetriever, which the class does not
\* declare as a field: a plain object takes the assignment, the pydantic model that
\* langchain_core's BaseRetriever is refuses it with a ValueError
SetAttrOutcomes == {"set", "raises"}

\* EnsembleRetriever.__init__ for n retrievers, lines 144-150
Ensemble_init(n, arg) ==
    IF ~arg.given
    THEN [ok |-> TRUE, weights |-> [i \in 1..n |-> 1]]
    ELSE IF Len(arg.list) # n
         THEN [ok |-> FALSE]
         ELSE [ok |-> TRUE, weights |-> arg.list]

InitConstruct ==
    /\ f_results \in SeqsUpTo(SourceReturns, MaxSources)
    /\ f_weights \in WeightArgs
    /\ f_out = Unbuilt

\* EnsembleRetriever(retrievers, weights), lines 131-150
EnsembleInit ==
    /\ f_out = Unbuilt
    /\ \E setattr \in SetAttrOutcomes :
          LET built == Ensemble_init(Len(f_results), f_weights)
          IN  IF setattr = "raises"
              THEN f_out' = FieldError /\ UNCHANGED f_weights
              ELSE IF built.ok
                   THEN f_weights' = built.weights /\ f_out' = NotRun
                   ELSE f_out' = ConfigError /\ UNCHANGED f_weights
    /\ UNCHANGED <<cacheVars, sessionVars, expandVars, f_results>>

NextConstruct == EnsembleInit \/ EnsembleRun

ConstructInit == InitCache /\ files = EmptyDirectory /\ InitIdleExpand /\ InitConstruct

SpecConstruct == ConstructInit /\ [][NextConstruct]_vars

(***************************************************************************)
(* Lookups over a cache directory that something else has damaged: the     *)
(* index or the payload of q1 is missing, is not JSON, or lacks a field.   *)
(***************************************************************************)
DamagedIndexes ==
    {Missing, Torn, Written(EarlierIndex),
     Written([h \in {_get_query_hash(q1)} |-> [query |-> q1]])}
DamagedPayloads ==
    {Missing, Torn, Written(CacheData(q1, BaseRetriever(q1), "a1", 0)),
     Written([query |-> q1, timestamp |-> 0])}

LookupInit ==
    /\ \E index \in DamagedIndexes, payload \in DamagedPayloads :
          files = [f \in FileNames |->
                      IF f = IndexFile THEN index
                      ELSE IF f = PayloadFile(_get_query_hash(q1)) THEN payload
                      ELSE Missing]
    /\ answered = {}
    /\ InitProcs
    /\ InitIdleExpand /\ InitIdleFusion

NextLookup ==
    \/ \E p \in Procs : NewCache(p)
    \/ \E p \in Procs, q \in Questions : CacheCheck(p, q)
    \/ Tick

SpecLookup == LookupInit /\ [][NextLookup]_vars

(***************************************************************************)
(* One front end handling requests one after the other, with the options   *)
(* of each request (the front end, use_multi_query, k) and the documents   *)
(* each part of the handler works on.  The handler uses the cache object   *)
(* of process "A"; save_to_cache is one step here, with the write that     *)
(* fails (if any) as its input.                                            *)
(***************************************************************************)
Handler == "A"
TopK == {1, 2}
RequestOptions == [frontend : Frontends, multi : BOOLEAN, k : TopK]
WriteFaults == {"none", "payload_open", "payload_dump", "index_open", "index_dump"}
RequestEnded == {"idle", "Hit", "Returned", "Failed"}

\* vector_store_manager.get_retriever(k=k): the k best documents of the index
Retriever(query, k) == SubSeq(BaseRetriever(query), 1, MinOf({k, Len(BaseRetriever(query))}))

\* QueryCache.save_to_cache on a cache object with index `index`, lines 140-178
save_to_cache(index, query, documents, ans, fault) ==
    LET query_hash == _get_query_hash(query)
        new_index  == IndexPut(index, query_hash, [query |-> query, timestamp |-> now])
        payload    == IF fault = "payload_open" THEN files[PayloadFile(query_hash)]
                      ELSE IF fault = "payload_dump" THEN Torn
                      ELSE Written(CacheData(query, documents, ans, now))
        saved      == IF fault \in {"payload_open", "payload_dump", "index_open"}
                      THEN files[IndexFile]
                      ELSE IF fault = "index_dump" THEN Torn
                      ELSE Written(new_index)
    IN  [index |-> new_index,
         files |-> [f \in FileNames |->
                       IF f = PayloadFile(query_hash) THEN payload
                       ELSE IF f = IndexFile THEN saved
                       ELSE files[f]]]

\* a request arrives: query_system and process_query construct their QueryCache; an
\* interactive_mode session constructs it before its first question and keeps it for
\* the questions that follow; then the cache check
RequestStart(q, opts) ==
    /\ r_pc \in RequestEnded
    /\ ops < MaxOps
    /\ ops' = ops + 1
    /\ r_question' = q
    /\ r_opts' = opts
    /\ LET index  == IF opts.frontend = "interactive_mode"
                        /\ r_opts.frontend = "interactive_mode"
                     THEN cache_index[Handler]
                     ELSE _load_cache_index
           result == get_from_cache(index, q)
       IN  /\ cache_index' = [cache_index EXCEPT ![Handler] = index]
           /\ r_cached' = result
           /\ r_pc' = IF result = Raised THEN "Failed"
                      ELSE IF Truthy(result) THEN "Hit"
                      ELSE IF opts.multi THEN "Expand"
                      ELSE "Retrieve"
    /\ r_calls' = <<>>
    /\ r_docs' = <<>>
    /\ r_context' = <<>>
    /\ r_answer' = ""
    /\ e_query' = NoInput /\ e_response' = NoInput /\ e_out' = NotRun
    /\ UNCHANGED <<fusionVars, uiVars, now, files, pc, question, cached,
                   use_multi_query, retrieved_docs, answer, listing, stats, after_clear,
                   answered, cleared>>

\* MultiQueryRetriever.get_relevant_documents: the multi-query chain answers, the
\* base retriever is called once per query, the results are fused
ExpandAndRetrieve ==
    /\ r_pc = "Expand"
    /\ \E response \in ExpanderResponses :
          LET queries == generate_multi_queries(r_question, response)
          IN  /\ e_query' = r_question /\ e_response' = response
              /\ e_out' = [st |-> "done", queries |-> queries]
              /\ r_calls' = queries
              /\ r_docs' = MultiQuery_get_relevant_documents(
                               [i \in 1..Len(queries) |-> Retriever(queries[i], r_opts.k)])
    /\ r_pc' = "Synthesize"
    /\ UNCHANGED <<cacheVars, fusionVars, uiVars, r_opts, r_question, r_cached, r_context,
                   r_answer>>

\* an expander whose failure makes the handler retrieve with the question alone
ExpandFails_fallback ==
    /\ r_pc = "Expand"
    /\ e_query' = r_question /\ e_out' = [st |-> "failed"]
    /\ r_calls' = <<r_question>>
    /\ r_docs' = Retriever(r_question, r_opts.k)
    /\ r_pc' = "Synthesize"
    /\ UNCHANGED <<cacheVars, fusionVars, uiVars, e_response, r_opts, r_question, r_cached,
                   r_context, r_answer>>

\* multi_query_chain.invoke raises inside generate_multi_queries (line 114): the
\* exception leaves get_relevant_documents at line 224 and the handler's retrieval
\* statement; query_system ends with it, interactive_mode and process_query catch it
\* after the whole body of the request
ExpandFails ==
    /\ r_pc = "Expand"
    /\ e_query' = r_question /\ e_out' = [st |-> "failed"]
    /\ r_pc' = "Failed"
    /\ UNCHANGED <<cacheVars, fusionVars, uiVars, e_response, r_opts, r_question, r_cached,
                   r_calls, r_docs, r_context, r_answer>>

\* single-query mode: base_retriever.get_relevant_documents(question)
RetrieveSingle ==
    /\ r_pc = "Retrieve"
    /\ r_calls' = <<r_question>>
    /\ r_docs' = Retriever(r_question, r_opts.k)
    /\ r_pc' = "Synthesize"
    /\ UNCHANGED <<cacheVars, expandVars, fusionVars, uiVars, r_opts, r_question, r_cached,
                   r_context, r_answer>>

\* a call of the base retriever raises, in either mode, after `sent` calls
SourceFails ==
    /\ r_pc \in {"Expand", "Retrieve"}
    /\ IF r_pc = "Retrieve"
       THEN r_calls' = <<r_question>> /\ UNCHANGED expandVars
       ELSE \E response \in ExpanderResponses :
               LET queries == generate_multi_queries(r_question, response)
               IN  /\ e_query' = r_question /\ e_response' = response
                   /\ e_out' = [st |-> "done", queries |-> queries]
                   /\ \E sent \in 1..Len(queries) : r_calls' = SubSeq(queries, 1, sent)
    /\ r_pc' = "Failed"
    /\ UNCHANGED <<cacheVars, fusionVars, uiVars, r_opts, r_question, r_cached, r_docs,
                   r_context, r_answer>>

\* the retriever the handler hands to answer_question: query_system (line 285) and
\* process_query (line 79) hand over `retriever`, the MultiQueryRetriever in
\* multi-query mode; interactive_mode (line 427) always hands over base_retriever
HandsOverMultiQuery == r_opts.multi /\ r_opts.frontend # "interactive_mode"

\* answer_question, create_rag_chain: `retriever | self._format_docs` (line 121).  A
\* MultiQueryRetriever is a plain object without __or__, the expression raises
\* TypeError.  With a base retriever the chain calls it with the question and
\* formats what it returns into the prompt.
BuildContext ==
    /\ r_pc = "Synthesize"
    /\ IF HandsOverMultiQuery
       THEN r_pc' = "Failed" /\ UNCHANGED r_context
       ELSE r_pc' = "Generate" /\ r_context' = Retriever(r_question, r_opts.k)
    /\ UNCHANGED <<cacheVars, expandVars, fusionVars, uiVars, r_opts, r_question, r_cached,
                   r_calls, r_docs, r_answer>>

\* prompt | llm | StrOutputParser gives the answer, or raises
GenerateAnswer ==
    /\ r_pc = "Generate"
    /\ \/ \E a \in Answers : r_answer' = a /\ r_pc' = "CacheStore"
       \/ r_pc' = "Failed" /\ UNCHANGED r_answer
    /\ UNCHANGED <<cacheVars, expandVars, fusionVars, uiVars, r_opts, r_question, r_cached,
                   r_calls, r_docs, r_context>>

\* cache.save_to_cache(question, retrieved_docs, answer), then the handler returns
\* answer and retrieved_docs
RequestStore ==
    /\ r_pc = "CacheStore"
    /\ \E fault \in WriteFaults :
          LET stored == save_to_cache(cache_index[Handler], r_question, r_docs, r_answer,
                                      fault)
          IN  /\ cache_index' = [cache_index EXCEPT ![Handler] = stored.index]
              /\ files' = stored.files
    /\ r_pc' = "Returned"
    /\ UNCHANGED <<expandVars, fusionVars, uiVars, now, pc, question, cached, use_multi_query,
                   retrieved_docs, answer, listing, stats, after_clear, answered,
                   cleared, ops, r_opts, r_question, r_cached, r_calls, r_docs,
                   r_context, r_answer>>

\* another run over the same directory while the handler is between two steps: a
\* `query --use-cache` of process "B" that misses, answers and stores without a
\* write error
OtherRequest(q) ==
    /\ ops < MaxOps
    /\ ops' = ops + 1
    /\ LET index == _load_cache_index
       IN  /\ get_from_cache(index, q) # Raised
           /\ ~Truthy(get_from_cache(index, q))
           /\ \E a \in Answers :
                 LET stored == save_to_cache(index, q, Retriever(q, 1), a, "none")
                 IN  /\ cache_index' = [cache_index EXCEPT !["B"] = stored.index]
                     /\ files' = stored.files
    /\ UNCHANGED <<expandVars, fusionVars, sessionVars, now, pc, question, cached,
                   use_multi_query, retrieved_docs, answer, listing, stats, after_clear,
                   answered, cleared>>

NextRequest ==
    \/ \E q \in Questions, opts \in RequestOptions : RequestStart(q, opts)
    \/ \E q \in Questions : OtherRequest(q)
    \/ ExpandAndRetrieve
    \/ ExpandFails
    \/ RetrieveSingle
    \/ SourceFails
    \/ BuildContext
    \/ GenerateAnswer
    \/ RequestStore

RequestInit == Init

SpecRequest == RequestInit /\ [][NextRequest]_vars

(***************************************************************************)
(* The command loop of interactive_mode (cli.py, lines 359-454): one line  *)
(* of input per pass, compared after str.lower() with the command words.   *)
(***************************************************************************)
\* str.lower() on the characters the lines here are made of
LowerChar(c) ==
    IF c = "E" THEN "e" ELSE IF c = "C" THEN "c" ELSE IF c = "S" THEN "s" ELSE c
Lower(line) == [i \in 1..Len(line) |-> LowerChar(line[i])]

WordExit == <<"e", "x", "i", "t">>
WordQuit == <<"q", "u", "i", "t">>
WordHelp == <<"h", "e", "l", "p">>
WordClear == <<"c", "l", "e", "a", "r">>
WordCacheStats == <<"c", "a", "c", "h", "e", " ", "s", "t", "a", "t", "s">>
WordCacheClear == <<"c", "a", "c", "h", "e", " ", "c", "l", "e", "a", "r">>
CommandWords == {WordExit, WordQuit, WordHelp, WordClear, WordCacheStats, WordCacheClear}

\* what the user may type at the prompt
InputLines ==
    CommandWords
    \cup {<<"E", "x", "i", "t">>,
          <<"C", "a", "c", "h", "e", " ", "S", "t", "a", "t", "s">>,
          <<"C", "a", "c", "h", "e", " ", "c", "l", "e", "a", "r">>,
          <<"e", "x", "i", "t", " ">>,
          <<>>, <<" ">>, q1, q2}

\* the body of the loop for one line, lines 363-395: the first branch that takes it
LoopBody(line, cache) ==
    IF Lower(line) \in {WordExit, WordQuit} THEN "exit"
    ELSE IF Lower(line) = WordHelp THEN "help"
    ELSE IF Lower(line) = WordClear THEN "clear_screen"
    ELSE IF Lower(line) = WordCacheStats /\ cache THEN "cache_stats"
    ELSE IF Lower(line) = WordCacheClear /\ cache THEN "cache_clear"
    ELSE IF Strip(line) = <<>> THEN "skip"
    ELSE "question"

\* `cli.py interactive` with or without --use_cache, up to the first prompt
StartInteractive(use_cache) ==
    /\ i_pc = "off"
    /\ i_pc' = "prompt"
    /\ i_use_cache' = use_cache
    /\ UNCHANGED <<cacheVars, expandVars, fusionVars, requestVars, webVars, i_line, i_did,
                   i_asked>>

\* one pass of the loop: input() returns `line`; a question goes on to the cache
\* check (when there is a cache), the retrieval and the answer chain
ReadLine(line) ==
    /\ i_pc = "prompt"
    /\ Len(i_asked) < MaxOps
    /\ i_line' = line
    /\ i_did' = LoopBody(line, i_use_cache)
    /\ i_asked' = IF LoopBody(line, i_use_cache) = "question"
                  THEN Append(i_asked, line)
                  ELSE i_asked
    /\ i_pc' = IF LoopBody(line, i_use_cache) = "exit" THEN "left" ELSE "prompt"
    /\ UNCHANGED <<cacheVars, expandVars, fusionVars, requestVars, webVars, i_use_cache>>

\* Ctrl-C at the prompt: `except KeyboardInterrupt: break`, lines 446-448
Interrupt ==
    /\ i_pc = "prompt"
    /\ i_pc' = "left"
    /\ UNCHANGED <<cacheVars, expandVars, fusionVars, requestVars, webVars, i_use_cache,
                   i_line, i_did, i_asked>>

NextInteractive ==
    \/ \E use_cache \in BOOLEAN : StartInteractive(use_cache)
    \/ \E line \in InputLines : ReadLine(line)
    \/ Interrupt

InteractiveInit == Init /\ files = EmptyDirectory

SpecInteractive == InteractiveInit /\ [][NextInteractive]_vars

(***************************************************************************)
(* The chat page of the web application (chat_interface.py, lines 98-218): *)
(* one browser session; a script run handles one submitted prompt.  The    *)
(* answering block calls process_query, whose steps are those of the       *)
(* request handlers above with the front end "process_query".              *)
(***************************************************************************)
\* initialize_session_state of a new session: index_status = check_index_status()
OpenSession(index_exists) ==
    /\ c_pc = "off"
    /\ c_pc' = "idle"
    /\ c_messages' = <<>>
    /\ x_index_status' = index_exists
    /\ UNCHANGED <<cacheVars, expandVars, fusionVars, requestVars, interactiveVars,
                   c_processing, c_prompt, x_in_progress, x_thread>>

UserMessage(prompt) == [role |-> "user", content |-> prompt]
AssistantMessage(text) == [role |-> "assistant", content |-> text]

\* result["answer"] of the dictionary process_query returned
ResultAnswer ==
    IF r_pc = "Hit" THEN r_cached.answer
    ELSE IF r_pc = "Returned" THEN r_answer
    ELSE "error"

\* a prompt is submitted: the user message is appended; the answering block is
\* entered only when `processing` is False, otherwise the run ends here
SubmitPrompt(prompt) ==
    /\ c_pc = "idle"
    /\ Len(c_messages) < 2 * MaxOps
    /\ c_messages' = Append(c_messages, UserMessage(prompt))
    /\ IF ~c_processing
       THEN c_processing' = TRUE /\ c_pc' = "answering" /\ c_prompt' = prompt
       ELSE UNCHANGED <<c_processing, c_pc, c_prompt>>
    /\ UNCHANGED <<cacheVars, expandVars, fusionVars, requestVars, interactiveVars,
                   indexingVars>>

\* process_query finds no index: the dictionary with "error": True, lines 32-37
ChatNoIndex ==
    /\ c_pc = "answering"
    /\ r_pc = "idle"
    /\ ~x_index_status
    /\ r_pc' = "Failed"
    /\ UNCHANGED <<cacheVars, expandVars, fusionVars, uiVars, r_opts, r_question, r_cached,
                   r_calls, r_docs, r_context, r_answer>>

\* process_query constructs its QueryCache and checks the cache, with the
\* retriever settings of the session
ChatProcessQuery ==
    /\ c_pc = "answering"
    /\ r_pc = "idle"
    /\ x_index_status
    /\ \E multi \in BOOLEAN, k \in TopK :
          RequestStart(c_prompt, [frontend |-> "process_query", multi |-> multi, k |-> k])

\* process_query has returned: the result is displayed, the assistant message is
\* appended, `processing` is reset (lines 159-192)
AppendAnswer ==
    /\ c_pc = "answering"
    /\ r_pc \in RequestEnded \ {"idle"}
    /\ c_messages' = Append(c_messages, AssistantMessage(ResultAnswer))
    /\ c_processing' = FALSE
    /\ c_pc' = "idle"
    /\ r_pc' = "idle"
    /\ UNCHANGED <<cacheVars, expandVars, fusionVars, interactiveVars, indexingVars, r_opts,
                   r_question, r_cached, r_calls, r_docs, r_context, r_answer, c_prompt>>

\* the script run is stopped inside the answering block (a widget interaction
\* makes the run stop, or an exception that process_query's `except Exception`
\* does not catch): lines 151-192 have no try/finally, the run ends where it is
RunInterrupted ==
    /\ c_pc = "answering"
    /\ c_pc' = "idle"
    /\ r_pc' = "idle"
    /\ UNCHANGED <<cacheVars, expandVars, fusionVars, interactiveVars, indexingVars, r_opts,
                   r_question, r_cached, r_calls, r_docs, r_context, r_answer,
                   c_messages, c_processing, c_prompt>>

\* the button under the chat: messages = [], then a rerun
ClearHistory ==
    /\ c_pc = "idle"
    /\ c_messages # <<>>
    /\ c_messages' = <<>>
    /\ UNCHANGED <<cacheVars, expandVars, fusionVars, requestVars, interactiveVars,
                   indexingVars, c_pc, c_processing, c_prompt>>

NextChat ==
    \/ \E index_exists \in BOOLEAN : OpenSession(index_exists)
    \/ \E prompt \in Questions : SubmitPrompt(prompt)
    \/ ChatNoIndex
    \/ ChatProcessQuery
    \/ ExpandAndRetrieve
    \/ ExpandFails
    \/ RetrieveSingle
    \/ SourceFails
    \/ BuildContext
    \/ GenerateAnswer
    \/ RequestStore
    \/ AppendAnswer
    \/ RunInterrupted
    \/ ClearHistory

ChatInit == Init

SpecChat == ChatInit /\ [][NextChat]_vars

(***************************************************************************)
(* The indexing button of the sidebar (sidebar.py, lines 250-270) and the  *)
(* thread it starts (run_indexing_process, lines 25-89).  A thread slot is *)
(* "none" when no thread occupies it; a step of a thread is one access to  *)
(* the session state or one call that may raise.                           *)
(***************************************************************************)
ThreadStages == {"none", "start", "nodocs", "indexing", "saving", "saved", "finishing",
                 "failed"}

\* the thread is between its first statement and the end of its work
Working(t) == x_thread[t] \in {"start", "indexing", "saving", "saved"}

\* the thread has been started and has not ended
Running(t) == x_thread[t] # "none"

FreeSlots == {t \in Threads : ~Running(t)}

\* a script run in which the button is pressed: it is shown only while
\* indexing_in_progress is False; with documents the flag is set and the thread
\* started, then the script is rerun
ClickIndex(has_documents) ==
    /\ c_pc = "idle"
    /\ ~x_in_progress
    /\ FreeSlots # {}
    /\ IF has_documents
       THEN /\ x_in_progress' = TRUE
            /\ x_thread' = [x_thread EXCEPT ![CHOOSE t \in FreeSlots :
                                                \A u \in FreeSlots : t <= u] = "start"]
       ELSE UNCHANGED <<x_in_progress, x_thread>>
    /\ UNCHANGED <<cacheVars, expandVars, fusionVars, requestVars, interactiveVars, chatVars,
                   x_index_status>>

\* lines 29-39: the parameters are read and the PDF files loaded
IndexLoad(t, outcome) ==
    /\ x_thread[t] = "start"
    /\ x_thread' = [x_thread EXCEPT ![t] = IF outcome = "documents" THEN "indexing"
                                          ELSE IF outcome = "none" THEN "nodocs"
                                          ELSE "failed"]
    /\ UNCHANGED <<cacheVars, expandVars, fusionVars, requestVars, interactiveVars, chatVars,
                   x_in_progress, x_index_status>>

\* lines 41-45: no document was loaded; the flag is reset and the function returns
\* through its finally clause
IndexNoDocuments(t) ==
    /\ x_thread[t] = "nodocs"
    /\ x_in_progress' = FALSE
    /\ x_thread' = [x_thread EXCEPT ![t] = "finishing"]
    /\ UNCHANGED <<cacheVars, expandVars, fusionVars, requestVars, interactiveVars, chatVars,
                   x_index_status>>

\* lines 47-72: the documents are split and the Chroma or FAISS index is created
IndexCreate(t, ok) ==
    /\ x_thread[t] = "indexing"
    /\ x_thread' = [x_thread EXCEPT ![t] = IF ok THEN "saving" ELSE "failed"]
    /\ UNCHANGED <<cacheVars, expandVars, fusionVars, requestVars, interactiveVars, chatVars,
                   x_in_progress, x_index_status>>

\* line 75: save_retriever_settings()
IndexSaveSettings(t, ok) ==
    /\ x_thread[t] = "saving"
    /\ x_thread' = [x_thread EXCEPT ![t] = IF ok THEN "saved" ELSE "failed"]
    /\ UNCHANGED <<cacheVars, expandVars, fusionVars, requestVars, interactiveVars, chatVars,
                   x_in_progress, x_index_status>>

\* line 78: index_status = True
IndexSetStatus(t) ==
    /\ x_thread[t] = "saved"
    /\ x_index_status' = TRUE
    /\ x_thread' = [x_thread EXCEPT ![t] = "finishing"]
    /\ UNCHANGED <<cacheVars, expandVars, fusionVars, requestVars, interactiveVars, chatVars,
                   x_in_progress>>

\* lines 83-89: after the work, the early return or the except clause, the finally
\* clause resets the flag and the thread ends
IndexFinally(t) ==
    /\ x_thread[t] \in {"finishing", "failed"}
    /\ x_in_progress' = FALSE
    /\ x_thread' = [x_thread EXCEPT ![t] = "none"]
    /\ UNCHANGED <<cacheVars, expandVars, fusionVars, requestVars, interactiveVars, chatVars,
                   x_index_status>>

\* threading.Thread(target=run_indexing_process) hands the thread no script
\* context.  Where the library then gives the thread a session state of its own,
\* st.session_state.pdf_dir (line 29) raises, `with st.session_state.get(...)` in
\* the except clause (line 84) raises again on None, and the finally clause writes
\* the flag of that other state: the thread ends, the session's flag stays as it is
IndexDetached(t) ==
    /\ x_thread[t] = "start"
    /\ x_thread' = [x_thread EXCEPT ![t] = "none"]
    /\ UNCHANGED <<cacheVars, expandVars, fusionVars, requestVars, interactiveVars, chatVars,
                   x_in_progress, x_index_status>>

NextIndexing ==
    \/ \E index_exists \in BOOLEAN : OpenSession(index_exists)
    \/ \E has_documents \in BOOLEAN : ClickIndex(has_documents)
    \/ \E t \in Threads, outcome \in {"documents", "none", "raises"} : IndexLoad(t, outcome)
    \/ \E t \in Threads : IndexNoDocuments(t)
    \/ \E t \in Threads, ok \in BOOLEAN : IndexCreate(t, ok)
    \/ \E t \in Threads, ok \in BOOLEAN : IndexSaveSettings(t, ok)
    \/ \E t \in Threads : IndexSetStatus(t)
    \/ \E t \in Threads : IndexFinally(t)
    \/ \E t \in Threads : IndexDetached(t)

IndexingInit == Init

SpecIndexing == IndexingInit /\ [][NextIndexing]_vars

(***************************************************************************)
(* Properties of the query cache and of the request pipeline (Spec).       *)
(***************************************************************************)

\* the step is the cache check of a request of p
IsCacheCheck(p) == \E q \in Questions : CacheCheck(p, q)

\* the step is the return of save_to_cache to the request of p
StoreReturns(p) ==
    /\ pc[p] \in {"CacheStore", "DumpPayload", "SaveIndex", "DumpIndex"}
    /\ pc'[p] \in {"RequestDone", "RequestUnsaved"}

\* a lookup of the question of p on the cache object of p returns what p stored
LookupReturnsStored(p) ==
    get_from_cache(cache_index[p], question[p]) = Found(retrieved_docs[p], answer[p])

\* C1: when two requests on different cache objects have both run save_to_cache to
\* its end without a write error, for different questions, in a run where
\* clear_cache was never called and no entry is older than the retention window,
\* then a lookup of each of the two questions on a cache object constructed
\* afterwards returns the entry stored for it
C1_NoLostUpdate ==
    \A a \in Procs, b \in Procs :
        (/\ a # b
         /\ pc[a] = "RequestDone" /\ ~cached[a].found
         /\ pc[b] = "RequestDone" /\ ~cached[b].found
         /\ question[a] # question[b]
         /\ ~cleared
         /\ now <= RetentionWindow)
        => /\ get_from_cache(_load_cache_index, question[a])
                = Found(retrieved_docs[a], answer[a])
           /\ get_from_cache(_load_cache_index, question[b])
                = Found(retrieved_docs[b], answer[b])

\* the store of p took less than the retention window
StoredJustNow(p) ==
    now - cache_index[p][_get_query_hash(question[p])].timestamp <= RetentionWindow

\* C2: when save_to_cache returns to a request of p while every other process has
\* done nothing but construct its cache object, a lookup of the same question on
\* the cache object of p at that moment returns exactly the documents and the
\* answer p stored
C2_StoreThenLookup ==
    [][\A p \in Procs :
          (StoreReturns(p) /\ StoredJustNow(p)' /\ \A r \in Procs \ {p} : pc[r] = "idle")
          => LookupReturnsStored(p)']_vars

\* C3: a cache check returns (None, None) whenever the index of the cache object
\* has no entry for the hash of the question, or the entry is older than 7 days
C3_AbsentWhenNoEntryOrExpired ==
    [][\A p \in Procs :
          IsCacheCheck(p) =>
              LET query_hash == _get_query_hash(question'[p])
              IN  (\/ query_hash \notin DOMAIN cache_index[p]
                   \/ now - cache_index[p][query_hash].timestamp > 7 * 24 * 60 * 60)
                  => cached'[p] = Absent]_vars

\* a request found the entry of its question expired in the index, its payload
\* still complete in the directory, and got (None, None)
C3_Witness ==
    \E p \in Procs :
        LET query_hash == _get_query_hash(question[p])
        IN  /\ pc[p] = "Retrieve"
            /\ cached[p] = Absent
            /\ query_hash \in DOMAIN cache_index[p]
            /\ now - cache_index[p][query_hash].timestamp > 7 * 24 * 60 * 60
            /\ files[PayloadFile(query_hash)].st = "ok"

\* C4: once a request has answered a question and saved the answer, a later
\* request for the same question, made while no entry is older than the retention
\* window in a run where clear_cache was never called, is served by its cache check
\* (it goes on to neither the retriever nor the answer chain)
C4_SecondRequestServedFromCache ==
    [][\A p \in Procs :
          (/\ IsCacheCheck(p)
           /\ question'[p] \in answered
           /\ ~cleared
           /\ now <= RetentionWindow)
          => pc'[p] = "RequestDone"]_vars

\* C9: get_cache_stats called on a cache object right after clear_cache on it
\* reports zero entries, and a clear_cache that has started can always take its
\* next step: nothing in it raises, whatever the directory holds
C9_ClearThenStatsZero ==
    /\ \A p \in Procs :
          (pc[p] = "StatsDone" /\ after_clear[p]) => stats[p].total_entries = 0
    /\ \A p \in Procs :
          pc[p] \in Clearing =>
              ENABLED (ClearRemove(p) \/ ClearReset(p) \/ ClearSaveIndex(p))

\* stores preceded, clear_cache ran, and get_cache_stats reported after it
C9_Witness ==
    \E p \in Procs :
        /\ pc[p] = "StatsDone"
        /\ after_clear[p]
        /\ answered # {}
        /\ stats[p].total_entries = 0

\* C10: a request whose cache check found an entry (get_from_cache returned the
\* documents and the answer) is never at the retriever, the answer chain or
\* save_to_cache
C10_HitReturnsImmediately ==
    \A p \in Procs : cached[p].found => pc[p] \notin Pipeline

\* the stage a request is in: 2 retrieval, 3 answer synthesis, 4 cache store
StageOf(at) ==
    CASE at = "Retrieve" -> 2
      [] at \in {"Synthesize", "Generate"} -> 3
      [] at \in {"CacheStore", "DumpPayload", "SaveIndex", "DumpIndex"} -> 4
      [] OTHER -> 0

\* the step is a call of the retrieval source by the request of p
QueriesSource(p) == Retrieve(p) \/ ChainRetrieve(p)

\* C11: a request never steps back to an earlier stage, and the work of a stage is
\* done in that stage only: the cache check opens the request and the retrieval
\* source is called in the retrieval stage, not again later
C11_StagesInOrderOnce ==
    [][\A p \in Procs :
          /\ (pc[p] \in Pipeline /\ pc'[p] \in Pipeline)
                => StageOf(pc'[p]) >= StageOf(pc[p])
          /\ IsCacheCheck(p) => pc[p] \in Idle
          /\ QueriesSource(p) => StageOf(pc[p]) = 2]_vars

\* the lookup of query on the cache object with this index cannot read what it needs
ReadFails(index, query) ==
    LET query_hash == _get_query_hash(query)
        file == files[PayloadFile(query_hash)]
    IN  /\ query_hash \in DOMAIN index
        /\ \/ "timestamp" \notin DOMAIN index[query_hash]
           \/ file.st # "ok"
           \/ ~({"documents", "answer"} \subseteq DOMAIN file.data)

\* C12: a cache check never raises, and it returns (None, None) when the index
\* entry or the payload of the question is missing, is not JSON or lacks a field
C12_LookupNeverRaises ==
    [][\A p \in Procs :
          IsCacheCheck(p) =>
              /\ cached'[p] # Raised
              /\ ReadFails(cache_index[p], question'[p]) => cached'[p] = Absent]_vars

Storing == {"CacheStore", "DumpPayload", "SaveIndex", "DumpIndex"}

\* C13: when a write of save_to_cache has failed, save_to_cache hands its caller a
\* CachePersistFailure
C13_WriteFailureSurfaced ==
    \A p \in Procs :
        pc[p] = "RequestUnsaved" => StoreOutcome(pc[p]) = "CachePersistFailure"

\* the step ends the cache store stage of the request of p
LeavesStore(p) == pc[p] \in Storing /\ pc'[p] \notin Storing

\* C14: however the cache store stage ends, with its writes done or with a failed
\* write, the request returns, and with the answer and the documents it computed
C14_WriteFailureDoesNotFailRequest ==
    [][\A p \in Procs :
          LeavesStore(p) =>
              /\ pc'[p] \in {"RequestDone", "RequestUnsaved"}
              /\ answer'[p] = answer[p]
              /\ retrieved_docs'[p] = retrieved_docs[p]]_vars

\* a request whose cache write failed has returned with its answer and documents
C14_Witness ==
    \E p \in Procs :
        /\ pc[p] = "RequestUnsaved"
        /\ answer[p] = "a1"
        /\ retrieved_docs[p] = BaseRetriever(question[p])
        /\ files[PayloadFile(_get_query_hash(question[p]))].st # "ok"

\* r has run save_to_cache for its question to the end without a write error
HasStored(r) == pc[r] = "RequestDone" /\ ~cached[r].found

\* p is inside save_to_cache, between open(payload, "w") and the end of the index save
MidStore(p) == pc[p] \in {"DumpPayload", "SaveIndex", "DumpIndex"}

\* C17: while p is in the middle of storing a question for which r has stored an
\* entry that is not expired, in a run without clear_cache, a lookup of the question
\* on the cache object of r returns either the complete pair r stored or the
\* complete pair p is storing
C17_ConcurrentLookupOldOrNew ==
    \A p \in Procs, r \in Procs :
        (/\ p # r
         /\ HasStored(r)
         /\ MidStore(p)
         /\ question[p] = question[r]
         /\ ~cleared
         /\ ~Expired(cache_index[r][_get_query_hash(question[r])], now))
        => get_from_cache(cache_index[r], question[r])
              \in {Found(retrieved_docs[r], answer[r]), Found(retrieved_docs[p], answer[p])}

\* every key of the index has a payload file in the cache directory
PayloadsPresent(index) == \A h \in DOMAIN index : files[PayloadFile(h)] # Missing

\* C18: whenever the one cache object in use (the other process has done nothing)
\* is between two operations, every hash in its index, and every hash in
\* cache_index.json when that file is readable, has a payload file in the cache
\* directory, also after stores whose payload or index write failed
C18_IndexedHashHasPayload ==
    \A p \in Procs :
        (/\ pc[p] \in Idle
         /\ \A r \in Procs \ {p} : pc[r] = "idle")
        => /\ PayloadsPresent(cache_index[p])
           /\ files[IndexFile].st = "ok" => PayloadsPresent(files[IndexFile].data)

\* the payload of the question of p carries the timestamp of the index entry of p
CreatedAtStored(p) ==
    LET query_hash == _get_query_hash(question[p])
        file == files[PayloadFile(query_hash)]
    IN  /\ file.st = "ok"
        /\ file.data.timestamp = cache_index[p][query_hash].timestamp

\* C19: when save_to_cache returns to p for a question whose entry an earlier store
\* had completed (expired by now or not), while every other process has done
\* nothing, a lookup of the question on the cache object of p returns the documents
\* and the answer of this second store, and the entry carries its timestamp
C19_StoreReplacesPrior ==
    [][\A p \in Procs :
          (/\ StoreReturns(p)
           /\ question[p] \in answered
           /\ StoredJustNow(p)'
           /\ \A r \in Procs \ {p} : pc[r] = "idle")
          => /\ LookupReturnsStored(p)'
             /\ CreatedAtStored(p)']_vars

\* a step of the request of p that comes before save_to_cache
BeforeCacheStore(p) ==
    \/ IsCacheCheck(p)
    \/ Retrieve(p) \/ RetrieveFails(p)
    \/ ChainRetrieve(p)
    \/ Synthesize(p) \/ SynthesizeFails(p)

\* C20: the cache check, the retrieval (query expansion included), the synthesis and
\* their failures leave every file of the cache directory and the index of the cache
\* object as they were; only the steps of save_to_cache write an entry
C20_NoCacheWriteBeforeStore ==
    [][\A p \in Procs : BeforeCacheStore(p) => UNCHANGED <<files, cache_index>>]_vars

\* a request failed before save_to_cache and the earlier entry is all the cache holds
C20_Witness ==
    \E p \in Procs :
        /\ pc[p] = "RequestFailed"
        /\ files = EarlierFiles
        /\ cache_index[p] = EarlierIndex

\* C23: a cache check (get_from_cache) and a get_cache_stats leave every file of the
\* cache directory and the index of every cache object as they were, also when the
\* entry looked up has expired
C23_ReadsLeaveCacheUnchanged ==
    [][\A p \in Procs :
          (IsCacheCheck(p) \/ CacheStats(p) \/ StatsScan(p))
          => UNCHANGED <<files, cache_index>>]_vars

\* the lookup of the expired earlier entry returned (None, None), and the entry and
\* its payload are still there
C23_Witness ==
    \E p \in Procs :
        /\ pc[p] = "Retrieve"
        /\ question[p] = q1
        /\ cached[p] = Absent
        /\ Expired(EarlierEntry, now)
        /\ cache_index[p] = EarlierIndex
        /\ files = EarlierFiles

\* the timestamps of the entries in the index of the cache object of p
EntryTimes(p) == {cache_index[p][h].timestamp : h \in DOMAIN cache_index[p]}

\* C27: when get_cache_stats has returned total_entries > 0 to p, the only process
\* that has done anything (its stores may have failed to write), the oldest entry
\* time it reports is not later than the newest, and both are timestamps of entries
\* in the index of the cache object
C27_StatsTimesAreEntryTimes ==
    \A p \in Procs :
        (/\ pc[p] = "StatsDone"
         /\ stats[p].total_entries > 0
         /\ \A r \in Procs \ {p} : pc[r] = "idle")
        => /\ stats[p].oldest_entry[1] <= stats[p].newest_entry[1]
           /\ stats[p].oldest_entry[1] \in EntryTimes(p)
           /\ stats[p].newest_entry[1] \in EntryTimes(p)

(***************************************************************************)
(* Properties of the request handlers (SpecRequest).                       *)
(***************************************************************************)
\* C21: once the multi-query chain has raised in a request, the request has ended as
\* failed, the base retriever was not called (not with the question alone either),
\* no documents and no answer exist; the failing step leaves the cache directory and
\* the index as they were, and the cache object of the handler is not changed
\* afterwards
C21_ExpanderFailureFailsRequest ==
    [][e_out'.st = "failed"
       => /\ r_pc' = "Failed"
          /\ r_calls' = <<>> /\ r_docs' = <<>> /\ r_context' = <<>> /\ r_answer' = ""
          /\ cache_index'[Handler] = cache_index[Handler]
          /\ e_out.st # "failed" => UNCHANGED <<files, cache_index>>]_vars

\* a request in multi-query mode missed the cache and its expansion raised
C21_Witness ==
    /\ e_out.st = "failed"
    /\ r_opts.multi
    /\ ~Truthy(r_cached)
    /\ r_pc = "Failed"

\* C22: when a request in multi-query mode has an answer, the documents the answer
\* chain put into the prompt are the fused documents of the multi-query retrieval,
\* which are the documents the handler returns and hands to save_to_cache
C22_AnswerFromFusedDocs ==
    (r_opts.multi /\ r_pc \in {"CacheStore", "Returned"}) => r_context = r_docs

\* the entry of hash h in cache_index.json, if the file can be read and has one
PersistedEntry(h) ==
    IF files[IndexFile].st = "ok" /\ h \in DOMAIN files[IndexFile].data
    THEN <<files[IndexFile].data[h]>>
    ELSE <<>>

\* C24: the save_to_cache of a request, whichever of its writes fails and whoever
\* wrote the other entries, leaves the payload file and the entry in
\* cache_index.json of every hash other than that of its question as they were
C24_StoreTouchesOwnKeyOnly ==
    [][(r_pc = "CacheStore" /\ r_pc' = "Returned")
       => \A h \in Hashes \ {_get_query_hash(r_question)} :
             /\ files'[PayloadFile(h)] = files[PayloadFile(h)]
             /\ PersistedEntry(h)' = PersistedEntry(h)]_vars

\* the request that has just returned stored its documents and its answer, and both
\* files hold them
EntryStored ==
    LET query_hash == _get_query_hash(r_question)
    IN  /\ r_pc = "Returned"
        /\ PersistedEntry(query_hash) # <<>>
        /\ files[PayloadFile(query_hash)].st = "ok"
        /\ files[PayloadFile(query_hash)].data.documents
              = [i \in 1..Len(r_docs) |-> _serialize_document(r_docs[i])]
        /\ files[PayloadFile(query_hash)].data.answer = r_answer

\* C25: when a request has stored its entry and the next request of the front end
\* has the same question text with another k or another use_multi_query, the next
\* request is served from the cache with the stored documents and answer; and
\* whatever a cache check finds was stored for the text of the question asked
C25_KeyIsQuestionTextOnly ==
    [][/\ (/\ EntryStored
           /\ r_pc' \notin {"Returned", "CacheStore"}
           /\ r_question' = r_question
           /\ (r_opts'.k # r_opts.k \/ r_opts'.multi # r_opts.multi))
          => /\ r_pc' = "Hit"
             /\ r_cached' = Found(r_docs, r_answer)
       /\ (r_pc' = "Hit" /\ r_pc # "Hit")
          => files[PayloadFile(_get_query_hash(r_question'))].data.query = r_question']_vars

(***************************************************************************)
(* Properties of the command loop (SpecInteractive).                       *)
(***************************************************************************)
\* C28: no line that is one of the command words exit, quit, help, clear,
\* "cache stats", "cache clear" (in any letter case) is handed on as a question,
\* with --use_cache and without
C28_CommandsNeverAsked ==
    \A n \in 1..Len(i_asked) : Lower(i_asked[n]) \notin CommandWords

(***************************************************************************)
(* Properties of the chat page (SpecChat).                                 *)
(***************************************************************************)
\* C29: between two script runs every user message of the history is followed by
\* exactly one assistant message (and every assistant message follows a user
\* message), and `processing` is False - whatever way the handling of the earlier
\* prompts ended, so that the next prompt enters the answering block.
C29_EveryPromptAnswered ==
    c_pc = "idle"
    => /\ ~c_processing
       /\ \A n \in 1..Len(c_messages) :
             /\ c_messages[n].role = "user"
                => n < Len(c_messages) /\ c_messages[n + 1].role = "assistant"
             /\ c_messages[n].role = "assistant"
                => n > 1 /\ c_messages[n - 1].role = "user"

(***************************************************************************)
(* Properties of the indexing button and its thread (SpecIndexing).        *)
(***************************************************************************)
\* C30: at most one indexing thread of the session is at work at any time;
\* indexing_in_progress is True while a thread is at work and is False again
\* when no thread is left, whatever the outcome; and indexing turns index_status
\* True only in the step that follows the creation of the index and the saving of
\* the settings.
C30_OneIndexingThread ==
    /\ [](/\ Cardinality({t \in Threads : Working(t)}) <= 1
          /\ (\E t \in Threads : Working(t)) => x_in_progress
          /\ x_in_progress => \E t \in Threads : Running(t))
    /\ [][(c_pc # "off" /\ ~x_index_status /\ x_index_status')
          => \E t \in Threads : x_thread[t] = "saved" /\ x_thread'[t] = "finishing"]_vars

(***************************************************************************)
(* Properties of query expansion (SpecExpand).                             *)
(***************************************************************************)

\* C8: whatever the multi-query chain responds, generate_multi_queries returns a
\* non-empty list whose first element is the question, character for character
C8_FirstIsOriginal ==
    e_out.st = "done" => /\ Len(e_out.queries) >= 1
                         /\ e_out.queries[1] = e_query

\* the expansion ran on a response with a line equal to the question
C8_Witness ==
    /\ e_out.st = "done"
    /\ \E i \in 2..Len(e_out.queries) : e_out.queries[i] = e_query

\* C15: a fusion over sources of which one raises ends with the failure and hands
\* out no documents, whatever the sources before it returned
C15_SourceFailureAbortsFusion ==
    (f_out # NotRun /\ HasFailure(f_results)) =>
        /\ f_out.st = "failed"
        /\ "docs" \notin DOMAIN f_out

\* a fusion failed at a later source after an earlier source had returned documents
C15_Witness ==
    /\ f_out.st = "failed"
    /\ f_out.at > 1
    /\ f_results[1] # <<>>

\* C16: __init__ with an explicit weight list as long as the retriever list keeps it,
\* with a list of another length it raises and the retriever is never run, and with
\* no list it gives every retriever weight 1; so a constructed retriever has as many
\* weights as retrievers
C16_WeightsMatchSources ==
    [][/\ f_out = Unbuilt =>
             IF f_weights.given /\ Len(f_weights.list) # Len(f_results)
             THEN f_out' \in {ConfigError, FieldError}
             ELSE /\ f_out' = NotRun
                  /\ Len(f_weights') = Len(f_results)
                  /\ f_weights' = IF f_weights.given THEN f_weights.list
                                  ELSE [i \in 1..Len(f_results) |-> 1]
       /\ f_out \in {ConfigError, FieldError} => f_out' = f_out
       /\ f_out.st = "done" => Len(f_weights) = Len(f_results)]_vars

\* C26: an EnsembleRetriever over an empty list of retrievers (no weights, or the
\* empty weight list) is constructed without an error, and its
\* _get_relevant_documents returns the empty list
C26_EmptySourcesEmptyResult ==
    [][Len(f_results) = 0
       => /\ (f_out = Unbuilt /\ (~f_weights.given \/ f_weights.list = <<>>))
             => f_out' = NotRun
          /\ f_out = NotRun
             => f_out' = [st |-> "done", policy |-> "ensemble", docs |-> <<>>]]_vars

(***************************************************************************)
(* Properties of the fusions (SpecFusion).  The passages of the data model *)
(* are identified by CompositeKey, the triple (content, source, page).     *)
(***************************************************************************)
RECURSIVE Flatten(_)
Flatten(lists) == IF lists = <<>> THEN <<>> ELSE Head(lists) \o Flatten(Tail(lists))

InputKeys == {CompositeKey(Flatten(f_results)[i]) : i \in 1..Len(Flatten(f_results))}

\* C5: the output of either fusion holds every composite key of the inputs exactly
\* once, and nothing else
C5_EachKeyExactlyOnce ==
    f_out.st = "done" =>
        /\ \A k \in InputKeys :
              Cardinality({i \in 1..Len(f_out.docs) : CompositeKey(f_out.docs[i]) = k}) = 1
        /\ \A i \in 1..Len(f_out.docs) : CompositeKey(f_out.docs[i]) \in InputKeys

\* the sources that returned the passage with composite key k
SourcesOf(k) ==
    {s \in 1..Len(f_results) :
        \E j \in 1..Len(f_results[s]) : CompositeKey(f_results[s][j]) = k}

RECURSIVE SumWeights(_)
SumWeights(S) ==
    IF S = {} THEN 0
    ELSE LET s == CHOOSE x \in S : TRUE IN f_weights[s] + SumWeights(S \ {s})

\* the score of the claim: the sum of the weights of the sources that returned it
ScoreOf(k) == SumWeights(SourcesOf(k))

\* position of the first occurrence of k in source order, then rank order
FirstSeen(k) ==
    LET all == Flatten(f_results)
    IN  CHOOSE i \in 1..Len(all) :
            CompositeKey(all[i]) = k /\ \A j \in 1..(i - 1) : CompositeKey(all[j]) # k

\* C6: the weighted union lists the input passages by score descending, the score
\* of a passage being the sum of the weights of the sources that returned it, and
\* passages of equal score in first-seen order
C6_WeightedUnionOrder ==
    (f_out.st = "done" /\ f_out.policy = "ensemble") =>
        /\ {CompositeKey(f_out.docs[i]) : i \in 1..Len(f_out.docs)} = InputKeys
        /\ \A i \in 1..Len(f_out.docs), j \in 1..Len(f_out.docs) :
              i < j =>
                  LET ki == CompositeKey(f_out.docs[i])
                      kj == CompositeKey(f_out.docs[j])
                  IN  \/ ScoreOf(ki) > ScoreOf(kj)
                      \/ ScoreOf(ki) = ScoreOf(kj) /\ FirstSeen(ki) < FirstSeen(kj)

\* the passages of a list, each composite key at its first occurrence only
RECURSIVE FirstSeenOrder(_, _)
FirstSeenOrder(docs, seen) ==
    IF docs = <<>> THEN <<>>
    ELSE IF CompositeKey(Head(docs)) \in seen
         THEN FirstSeenOrder(Tail(docs), seen)
         ELSE <<Head(docs)>>
              \o FirstSeenOrder(Tail(docs), seen \cup {CompositeKey(Head(docs))})

\* C7: the set union returns all passages of the first query in rank order, then
\* the passages of the second query whose composite key was not seen before, and
\* so on
C7_SetUnionFirstSeenOrder ==
    (f_out.st = "done" /\ f_out.policy = "multi_query") =>
        f_out.docs = FirstSeenOrder(Flatten(f_results), {})

====
